---- MODULE Spec2Model ----
(***************************************************************************)
(* Model of the knowledge-based Minesweeper player of src/minesweeper.py:  *)
(* the Sentence class, the MinesweeperAI agent and the part of the         *)
(* Minesweeper board that produces the observations fed to the agent.      *)
(***************************************************************************)
EXTENDS Integers, FiniteSets, Sequences, TLC

(* ---------------------------------------------------------------------- *)
(* Bounds                                                                  *)
(* ---------------------------------------------------------------------- *)
Height == 2
Width == 3
MaxMines == 1
MaxCalls == 3
MaxCount == 1
MaxCells == 3
LoopLimit == 16

Cells == (0 .. (Height - 1)) \X (0 .. (Width - 1))
Counts == (0 - 1) .. MaxCount
None == << >>

VARIABLES board, moves_made, mines, safes, knowledge, calls, pc, op, arg, ret, sent, out

vars == << board, moves_made, mines, safes, knowledge, calls, pc, op, arg, ret, sent, out >>

(* ---------------------------------------------------------------------- *)
(* Minesweeper (the board)                                                 *)
(* ---------------------------------------------------------------------- *)
Around(cell) ==
    { c \in ((cell[1] - 1) .. (cell[1] + 1)) \X ((cell[2] - 1) .. (cell[2] + 1)) :
        c # cell }

InBounds(c) == 0 <= c[1] /\ c[1] < Height /\ 0 <= c[2] /\ c[2] < Width

is_mine(b, cell) == cell \in b

nearby_mines(b, cell) ==
    Cardinality({ c \in Around(cell) : InBounds(c) /\ is_mine(b, c) })

(* ---------------------------------------------------------------------- *)
(* Sentence                                                                *)
(* ---------------------------------------------------------------------- *)
Sentence(cells, count) == [cells |-> cells, count |-> count]

sentence_eq(s, t) == s.cells = t.cells /\ s.count = t.count

\* mutation: ">=" for "=="
known_mines_ge(s) == IF Cardinality(s.cells) >= s.count THEN s.cells ELSE {}

known_mines(s) == IF Cardinality(s.cells) = s.count THEN s.cells ELSE {}

\* mutation: "<=" for "=="
known_safes_le(s) == IF s.count <= 0 THEN s.cells ELSE {}

known_safes(s) == IF s.count = 0 THEN s.cells ELSE {}

\* mutation: the count is not decremented
sentence_mark_mine_keeps_count(s, cell) ==
    IF cell \in s.cells
    THEN [cells |-> s.cells \ {cell}, count |-> s.count]
    ELSE s

\* mutation: the test "cell in self.cells" is missing
sentence_mark_mine_always(s, cell) ==
    [cells |-> s.cells \ {cell}, count |-> s.count - 1]

sentence_mark_mine(s, cell) ==
    IF cell \in s.cells
    THEN [cells |-> s.cells \ {cell}, count |-> s.count - 1]
    ELSE s

\* mutation: the count is decremented as for a mine
sentence_mark_safe_decrements(s, cell) ==
    IF cell \in s.cells
    THEN [cells |-> s.cells \ {cell}, count |-> s.count - 1]
    ELSE s

sentence_mark_safe(s, cell) ==
    IF cell \in s.cells
    THEN [s EXCEPT !.cells = s.cells \ {cell}]
    ELSE s

(* ---------------------------------------------------------------------- *)
(* MinesweeperAI: the agent state is the record                            *)
(*   [moves_made, mines, safes, knowledge]                                 *)
(* ---------------------------------------------------------------------- *)
NewAI == [moves_made |-> {}, mines |-> {}, safes |-> {}, knowledge |-> << >>]

AI == [moves_made |-> moves_made, mines |-> mines, safes |-> safes,
       knowledge |-> knowledge]

\* "s in self.knowledge": list membership by Sentence.__eq__
InKnowledge(s, kn) == \E k \in 1 .. Len(kn) : sentence_eq(s, kn[k])

\* mutation: a cell marked as a mine is withdrawn from the safes
mark_mine_unsafes(ai, cell) ==
    [ai EXCEPT !.mines = @ \cup {cell},
               !.safes = @ \ {cell},
               !.knowledge = [k \in 1 .. Len(@) |-> sentence_mark_mine(@[k], cell)]]

mark_mine(ai, cell) ==
    [ai EXCEPT !.mines = @ \cup {cell},
               !.knowledge = [k \in 1 .. Len(@) |-> sentence_mark_mine(@[k], cell)]]

\* mutation: the loop over the sentences is missing
mark_safe_global_only(ai, cell) == [ai EXCEPT !.safes = @ \cup {cell}]

mark_safe(ai, cell) ==
    [ai EXCEPT !.safes = @ \cup {cell},
               !.knowledge = [k \in 1 .. Len(@) |-> sentence_mark_safe(@[k], cell)]]

\* "for mine in mines: self.mark_mine(mine)" over a copied set
RECURSIVE mark_mines_all(_, _)
mark_mines_all(ai, cs) ==
    IF cs = {} THEN ai
    ELSE LET c == CHOOSE x \in cs : TRUE
         IN mark_mines_all(mark_mine(ai, c), cs \ {c})

\* "for safe in safes: self.mark_safe(safe)" over a copied set
RECURSIVE mark_safes_all(_, _)
mark_safes_all(ai, cs) ==
    IF cs = {} THEN ai
    ELSE LET c == CHOOSE x \in cs : TRUE
         IN mark_safes_all(mark_safe(ai, c), cs \ {c})

\* mutation: the diagonal neighbours are left out
return_neighbors_orthogonal(ai, cell) ==
    LET nb == { c \in Around(cell) :
                  InBounds(c) /\ (c[1] = cell[1] \/ c[2] = cell[2]) }
    IN [neighbors |-> nb, mineCount |-> Cardinality(nb \cap ai.mines)]

return_neighbors(ai, cell) ==
    LET nb == { c \in Around(cell) : InBounds(c) }
    IN [neighbors |-> nb, mineCount |-> Cardinality(nb \cap ai.mines)]

\* mutation: the known mines are not taken out of the new sentence
add_sentence_keeps_mines(ai, cell, count) ==
    LET a1 == [ai EXCEPT !.moves_made = @ \cup {cell}]
        a2 == [a1 EXCEPT !.safes = @ \cup {cell},
                         !.knowledge = [k \in 1 .. Len(@) |->
                                           sentence_mark_safe(@[k], cell)]]
        nb == { c \in Around(cell) : InBounds(c) }
        unknownNeighbors == nb \ a2.safes
        newSentence == Sentence(unknownNeighbors,
                                count - Cardinality(nb \cap a2.mines))
    IN IF unknownNeighbors # {} /\ ~InKnowledge(newSentence, a2.knowledge)
       THEN [a2 EXCEPT !.knowledge = Append(@, newSentence)]
       ELSE a2

\* mutation: the test "newSentence not in self.knowledge" is missing
add_sentence_no_dedup(ai, cell, count) ==
    LET a1 == [ai EXCEPT !.moves_made = @ \cup {cell}]
        a2 == [a1 EXCEPT !.safes = @ \cup {cell},
                         !.knowledge = [k \in 1 .. Len(@) |->
                                           sentence_mark_safe(@[k], cell)]]
        nb == { c \in Around(cell) : InBounds(c) }
        unknownNeighbors == (nb \ a2.mines) \ a2.safes
        newSentence == Sentence(unknownNeighbors,
                                count - Cardinality(nb \cap a2.mines))
    IN IF unknownNeighbors # {}
       THEN [a2 EXCEPT !.knowledge = Append(@, newSentence)]
       ELSE a2

\* lines 190-204: record the move, mark it safe, add the new sentence
add_sentence(ai, cell, count) ==
    LET a1 == [ai EXCEPT !.moves_made = @ \cup {cell}]
        a2 == mark_safe(a1, cell)
        nb == return_neighbors(a2, cell)
        unknownNeighbors == (nb.neighbors \ a2.mines) \ a2.safes
        newSentence == Sentence(unknownNeighbors, count - nb.mineCount)
    IN IF unknownNeighbors # {} /\ ~InKnowledge(newSentence, a2.knowledge)
       THEN [a2 EXCEPT !.knowledge = Append(@, newSentence)]
       ELSE a2

\* one iteration of the loop of lines 207-217 on knowledge[k].  The tests
\* "mines not in self.mines" / "safes not in self.safes" ask whether the
\* SET is an element of a set of cells, which it never is (set_in_cells).
set_in_cells(cs, known) == FALSE

propagate_step(ai, k) ==
    LET ms == known_mines(ai.knowledge[k])
        a1 == IF ms # {} /\ ~set_in_cells(ms, ai.mines)
              THEN mark_mines_all(ai, ms) ELSE ai
        ss == known_safes(a1.knowledge[k])
    IN IF ss # {} /\ ~set_in_cells(ss, a1.safes)
       THEN mark_safes_all(a1, ss) ELSE a1

\* mutation: only the last sentence of the list is examined
propagate_last_only(ai, k) ==
    IF Len(ai.knowledge) = 0 THEN ai
    ELSE propagate_step(ai, Len(ai.knowledge))

\* lines 207-217: a single pass over knowledge, in list order
RECURSIVE propagate(_, _)
propagate(ai, k) ==
    IF k > Len(ai.knowledge) THEN ai
    ELSE propagate(propagate_step(ai, k), k + 1)

\* lines 229-234: does the body of the inner loop append, with the outer
\* iterator on knowledge[i] and the inner one on knowledge[j] ?
reduced(ai, i, j) ==
    LET sentence == ai.knowledge[i]
        sentence2 == ai.knowledge[j]
        deducedCells == (sentence2.cells \ sentence.cells) \ ai.moves_made
        deducedCount == sentence2.count - sentence.count
    IN Sentence(deducedCells, deducedCount)

\* mutation: the subset test has its operands exchanged
appends_superset(ai, i, j) ==
    LET sentence == ai.knowledge[i]
        sentence2 == ai.knowledge[j]
    IN /\ ~sentence_eq(sentence, sentence2)
       /\ Cardinality(sentence2.cells) # 0
       /\ sentence2.cells \subseteq sentence.cells
       /\ ~InKnowledge(reduced(ai, i, j), ai.knowledge)

\* mutation: the test "reducedSentence not in self.knowledge" is missing
appends_no_dedup(ai, i, j) ==
    LET sentence == ai.knowledge[i]
        sentence2 == ai.knowledge[j]
    IN /\ ~sentence_eq(sentence, sentence2)
       /\ Cardinality(sentence2.cells) # 0
       /\ sentence.cells \subseteq sentence2.cells

appends(ai, i, j) ==
    LET sentence == ai.knowledge[i]
        sentence2 == ai.knowledge[j]
    IN /\ ~sentence_eq(sentence, sentence2)
       /\ Cardinality(sentence2.cells) # 0
       /\ sentence.cells \subseteq sentence2.cells
       /\ ~InKnowledge(reduced(ai, i, j), ai.knowledge)

\* lines 220-235: the nested loops over the list that grows while they run.
\* i and j are the positions of the two list iterators; an inner iteration
\* that appends nothing changes nothing, so the inner iterator is moved
\* straight to the next position at which the body appends.  The loops
\* leave when the outer iterator passes the end of the list; fuel counts the
\* appends still followed, and a call that uses it up is reported as not
\* having returned.
RECURSIVE infer(_, _, _, _)
infer(ai, i, j, fuel) ==
    LET kn == ai.knowledge IN
    IF i > Len(kn) THEN [ai |-> ai, returned |-> TRUE]
    ELSE IF Cardinality(kn[i].cells) = 0 THEN infer(ai, i + 1, 1, fuel)
    ELSE LET hits == { q \in j .. Len(kn) : appends(ai, i, q) }
         IN IF hits = {} THEN infer(ai, i + 1, 1, fuel)
            ELSE IF fuel = 0 THEN [ai |-> ai, returned |-> FALSE]
            ELSE LET q == CHOOSE x \in hits : \A y \in hits : x <= y
                 IN infer([ai EXCEPT !.knowledge = Append(@, reduced(ai, i, q))],
                          i, q + 1, fuel - 1)

add_knowledge(ai, cell, count) ==
    infer(propagate(add_sentence(ai, cell, count), 1), 1, 1, LoopLimit)

\* mutation: the test "safe not in self.moves_made" is missing
safe_move_results_any(ai) == IF ai.safes = {} THEN {None} ELSE ai.safes

\* lines 246-249: the cells a set iteration can meet first
safe_move_results(ai) ==
    IF ai.safes \ ai.moves_made = {} THEN {None} ELSE ai.safes \ ai.moves_made

\* mutation: the known mines are not eliminated
random_move_results_ignores_mines(ai) ==
    LET remainingChoice == Cells \ ai.moves_made
    IN IF remainingChoice # {} THEN remainingChoice ELSE {None}

\* lines 258-269; random.sample is taken to accept a set, as it does in the
\* Python versions before 3.11, and to be able to pick any element
random_move_results(ai) ==
    LET remainingChoice == (Cells \ ai.moves_made) \ ai.mines
    IN IF remainingChoice # {} THEN remainingChoice ELSE {None}

(* ---------------------------------------------------------------------- *)
(* State machine                                                           *)
(* ---------------------------------------------------------------------- *)
NoSentence == Sentence({}, 0)
NoOut == [op |-> "none", cell |-> None, before |-> NoSentence, mines |-> {}, safes |-> {}]

InitAgent ==
    /\ moves_made = NewAI.moves_made
    /\ mines = NewAI.mines
    /\ safes = NewAI.safes
    /\ knowledge = NewAI.knowledge
    /\ calls = 0
    /\ pc = "idle"
    /\ op = "init"
    /\ arg = [cell |-> None, count |-> 0]
    /\ ret = None

\* a game: some board, a fresh agent
Init ==
    /\ board \in { b \in SUBSET Cells : Cardinality(b) <= MaxMines }
    /\ InitAgent
    /\ sent = NoSentence
    /\ out = NoOut

SetAgent(ai) ==
    /\ moves_made' = ai.moves_made
    /\ mines' = ai.mines
    /\ safes' = ai.safes
    /\ knowledge' = ai.knowledge

\* a call of add_knowledge: the agent is left in the state the call
\* produced, and the call has returned unless the inference loops were still
\* appending
Call(cell, count) ==
    LET r == add_knowledge(AI, cell, count)
    IN /\ SetAgent(r.ai)
       /\ pc' = IF r.returned THEN "idle" ELSE "add_knowledge"
       /\ calls' = calls + 1

\* the runner reveals a cell that is not a mine and reports its true count
Reveal ==
    \E cell \in Cells :
        /\ pc = "idle"
        /\ ~is_mine(board, cell)
        /\ calls < MaxCalls
        /\ Call(cell, nearby_mines(board, cell))
        /\ op' = "add_knowledge"
        /\ arg' = [cell |-> cell, count |-> nearby_mines(board, cell)]
        /\ ret' = None
        /\ UNCHANGED << board, sent, out >>

\* add_knowledge called with any cell and any count
AddKnowledge ==
    \E cell \in Cells, count \in Counts :
        /\ pc = "idle"
        /\ calls < MaxCalls
        /\ Call(cell, count)
        /\ op' = "add_knowledge"
        /\ arg' = [cell |-> cell, count |-> count]
        /\ ret' = None
        /\ UNCHANGED << board, sent, out >>

MarkMine ==
    \E cell \in Cells :
        /\ pc = "idle"
        /\ calls < MaxCalls
        /\ SetAgent(mark_mine(AI, cell))
        /\ pc' = "idle"
        /\ calls' = calls + 1
        /\ op' = "mark_mine"
        /\ arg' = [cell |-> cell, count |-> 0]
        /\ ret' = None
        /\ UNCHANGED << board, sent, out >>

MarkSafe ==
    \E cell \in Cells :
        /\ pc = "idle"
        /\ calls < MaxCalls
        /\ SetAgent(mark_safe(AI, cell))
        /\ pc' = "idle"
        /\ calls' = calls + 1
        /\ op' = "mark_safe"
        /\ arg' = [cell |-> cell, count |-> 0]
        /\ ret' = None
        /\ UNCHANGED << board, sent, out >>

\* mutation: the returned move is recorded as made
MakeSafeMove_records ==
    \E r \in safe_move_results(AI) :
        /\ pc = "idle"
        /\ op' = "make_safe_move"
        /\ arg' = [cell |-> None, count |-> 0]
        /\ ret' = r
        /\ moves_made' = IF r = None THEN moves_made ELSE moves_made \cup {r}
        /\ UNCHANGED << board, mines, safes, knowledge, calls, pc, sent, out >>

MakeSafeMove ==
    \E r \in safe_move_results(AI) :
        /\ pc = "idle"
        /\ op' = "make_safe_move"
        /\ arg' = [cell |-> None, count |-> 0]
        /\ ret' = r
        /\ UNCHANGED << board, moves_made, mines, safes, knowledge, calls, pc, sent, out >>

MakeRandomMove ==
    \E r \in random_move_results(AI) :
        /\ pc = "idle"
        /\ op' = "make_random_move"
        /\ arg' = [cell |-> None, count |-> 0]
        /\ ret' = r
        /\ UNCHANGED << board, moves_made, mines, safes, knowledge, calls, pc, sent, out >>

\* a game driven by observations that are true of the board
Next == Reveal

Spec == Init /\ [][Next]_vars

\* the agent driven by arbitrary calls
InitAny ==
    /\ board = {}
    /\ InitAgent
    /\ sent = NoSentence
    /\ out = NoOut

NextAny == AddKnowledge \/ MarkMine \/ MarkSafe \/ MakeSafeMove \/ MakeRandomMove

SpecAny == InitAny /\ [][NextAny]_vars

\* a sentence on its own: any cell set of at most MaxCells cells with any
\* count from -1 to one more than the number of cells allowed
Sentences ==
    { Sentence(cs, n) : cs \in { x \in SUBSET Cells : Cardinality(x) <= MaxCells },
                        n \in (0 - 1) .. (MaxCells + 1) }

InitSentence ==
    /\ board = {}
    /\ InitAgent
    /\ sent \in Sentences
    /\ out = NoOut

SentKnown ==
    /\ out' = [op |-> "known", cell |-> None, before |-> sent,
               mines |-> known_mines(sent), safes |-> known_safes(sent)]
    /\ UNCHANGED << board, moves_made, mines, safes, knowledge, calls, pc, op, arg, ret, sent >>

SentMarkMine ==
    \E cell \in Cells :
        /\ sent' = sentence_mark_mine(sent, cell)
        /\ out' = [op |-> "mark_mine", cell |-> cell, before |-> sent,
                   mines |-> {}, safes |-> {}]
        /\ UNCHANGED << board, moves_made, mines, safes, knowledge, calls, pc, op, arg, ret >>

SentMarkSafe ==
    \E cell \in Cells :
        /\ sent' = sentence_mark_safe(sent, cell)
        /\ out' = [op |-> "mark_safe", cell |-> cell, before |-> sent,
                   mines |-> {}, safes |-> {}]
        /\ UNCHANGED << board, moves_made, mines, safes, knowledge, calls, pc, op, arg, ret >>

NextSentence == SentKnown \/ SentMarkMine \/ SentMarkSafe

SpecSentence == InitSentence /\ [][NextSentence]_vars

TypeOK ==
    /\ board \subseteq Cells
    /\ moves_made \subseteq Cells
    /\ mines \subseteq Cells
    /\ safes \subseteq Cells
    /\ \A k \in 1 .. Len(knowledge) : knowledge[k].cells \subseteq Cells

(* ---------------------------------------------------------------------- *)
(* Properties                                                              *)
(* ---------------------------------------------------------------------- *)
Neighbors(cell) == { c \in Around(cell) : InBounds(c) }

Degenerate(s) == s.count < 0 \/ s.count > Cardinality(s.cells)

Resolvable(s) ==
    s.cells # {} /\ (s.count = 0 \/ Cardinality(s.cells) = s.count)

\* C1 (Spec): soundness.  With every observation true of the board, the
\* cells the agent has marked as mines are all mines of the board and no
\* cell it has marked safe is a mine of the board.
C1_Sound == mines \subseteq board /\ safes \cap board = {}

C1_Witness ==
    /\ op = "add_knowledge" /\ pc = "idle"
    /\ mines # {} /\ mines \subseteq board
    /\ safes # {} /\ safes \cap board = {}

\* C2 (Spec): between the calls of a run driven by true observations the
\* agent's mines and safes are disjoint.
C2_Disjoint == pc = "idle" => mines \cap safes = {}

C2_Witness ==
    /\ op = "add_knowledge" /\ pc = "idle" /\ calls >= 2
    /\ mines # {} /\ safes # {} /\ mines \cap safes = {}

\* C3 (SpecAny): between calls, whatever calls were made and whatever
\* counts were passed, no sentence of knowledge contains a cell of mines or
\* of safes, the sentences appended by subset-subtraction included.
C3_Stripped ==
    pc = "idle" =>
        \A k \in 1 .. Len(knowledge) :
            knowledge[k].cells \cap (mines \cup safes) = {}

C3_Witness ==
    /\ pc = "idle" /\ op = "add_knowledge"
    /\ mines # {} /\ safes # {}
    /\ Len(knowledge) >= 3
    /\ \E k \in 1 .. Len(knowledge) : knowledge[k].cells # {}
    /\ \A k \in 1 .. Len(knowledge) :
           knowledge[k].cells \cap (mines \cup safes) = {}

\* C4 (Spec): when add_knowledge returns, every sentence with count = 0 and
\* every sentence with |cells| = count has an empty cell set, that is, no
\* sentence still yields a certain cell.
C4_FixedPoint ==
    (pc = "idle" /\ op = "add_knowledge") =>
        \A k \in 1 .. Len(knowledge) : ~Resolvable(knowledge[k])

\* C5 (Spec): when add_knowledge(c, 0) returns in a run driven by true
\* observations, c and all of its in-bounds neighbours are in safes.
C5_ZeroCount ==
    (pc = "idle" /\ op = "add_knowledge" /\ arg.count = 0) =>
        ({arg.cell} \cup Neighbors(arg.cell)) \subseteq safes

C5_Witness ==
    /\ pc = "idle" /\ op = "add_knowledge" /\ arg.count = 0
    /\ calls >= 2 /\ board # {}
    /\ ({arg.cell} \cup Neighbors(arg.cell)) \subseteq safes

\* C6 (SpecAny): make_safe_move returns None exactly when safes minus
\* moves_made is empty, and otherwise a cell of safes that is not in
\* moves_made.
C6_SafeMove ==
    op = "make_safe_move" =>
        /\ (ret = None) <=> (safes \ moves_made = {})
        /\ ret # None => (ret \in safes /\ ret \notin moves_made)

C6_Witness ==
    /\ op = "make_safe_move" /\ ret # None
    /\ ret \in safes /\ ret \notin moves_made
    /\ moves_made # {}

C8_Monotone ==
    [][ /\ moves_made \subseteq moves_made'
        /\ mines \subseteq mines'
        /\ safes \subseteq safes'
        /\ Len(knowledge) <= Len(knowledge') ]_vars

C8_Witness ==
    /\ pc = "idle" /\ calls >= 2
    /\ moves_made # {} /\ mines # {} /\ safes # {}
    /\ \E k \in 1 .. Len(knowledge) : knowledge[k].cells = {}

\* C9 (SpecAny): a step that is a make_safe_move or a make_random_move call
\* leaves moves_made, mines, safes and every sentence of knowledge as they
\* were, whether it returns a cell or None.
C9_MovesReadOnly ==
    [][ op' \in {"make_safe_move", "make_random_move"} =>
            UNCHANGED << moves_made, mines, safes, knowledge >> ]_vars

C9_Witness ==
    /\ op = "make_safe_move" /\ ret # None
    /\ knowledge # << >> /\ mines # {}

\* C10 (SpecSentence): for every sentence, degenerate ones included,
\* known_mines is the cell set when |cells| = count and empty otherwise,
\* known_safes is the cell set when count = 0 and empty otherwise; a
\* degenerate count yields neither, and no cell is reported as both.
C10_Known ==
    out.op = "known" =>
        /\ out.mines = IF Cardinality(sent.cells) = sent.count THEN sent.cells ELSE {}
        /\ out.safes = IF sent.count = 0 THEN sent.cells ELSE {}
        /\ Degenerate(sent) => (out.mines = {} /\ out.safes = {})
        /\ out.mines \cap out.safes = {}

C10_Witness ==
    /\ out.op = "known" /\ sent.cells # {} /\ Degenerate(sent)
    /\ out.mines = {} /\ out.safes = {}

\* C11 (SpecSentence): on a sentence that contains c, mark_mine(c) removes c
\* and lowers count by exactly 1 and mark_safe(c) removes c and keeps count,
\* each leaving one cell fewer; on a sentence that does not contain c (as
\* after either call) both leave cells and count as they were.
C11_Mark ==
    out.op \in {"mark_mine", "mark_safe"} =>
        LET S == out.before
            c == out.cell
        IN IF c \in S.cells
           THEN /\ sent.cells = S.cells \ {c}
                /\ Cardinality(sent.cells) = Cardinality(S.cells) - 1
                /\ sent.count = IF out.op = "mark_mine" THEN S.count - 1 ELSE S.count
                /\ sentence_mark_mine(sent, c) = sent
                /\ sentence_mark_safe(sent, c) = sent
           ELSE sent = S

C11_Witness ==
    /\ out.op = "mark_safe" /\ out.cell \in out.before.cells
    /\ sent.cells = out.before.cells \ {out.cell}
    /\ sent.cells # {} /\ sent.count = out.before.count /\ sent.count > 0

\* C12 (SpecAny): after a mark_mine(cell) or mark_safe(cell) call of the
\* agent, the same call made again leaves mines, safes, moves_made and every
\* sentence as they are; and the call leaves every sentence that does not
\* contain the cell as it was.
C12_Idempotent ==
    [][ op' \in {"mark_mine", "mark_safe"} =>
          /\ op' = "mark_mine" => mark_mine(AI', arg'.cell) = AI'
          /\ op' = "mark_safe" => mark_safe(AI', arg'.cell) = AI'
          /\ Len(knowledge') = Len(knowledge)
          /\ \A k \in 1 .. Len(knowledge) :
                 arg'.cell \notin knowledge[k].cells => knowledge'[k] = knowledge[k] ]_vars

C12_Witness ==
    /\ op = "mark_mine" /\ pc = "idle"
    /\ arg.cell \in mines
    /\ \E k \in 1 .. Len(knowledge) : knowledge[k].cells # {}
    /\ \E k \in 1 .. Len(knowledge) : knowledge[k].count < 0
    /\ mark_mine(AI, arg.cell) = AI

\* C13 (Spec): with observations that are true of the board every
\* add_knowledge call returns: the inference loops reach the end of the list
\* after finitely many appends, so no call is left running.
C13_Terminates == pc = "idle" /\ Len(knowledge) <= calls * (LoopLimit + 1)

C13_Witness ==
    /\ pc = "idle" /\ op = "add_knowledge"
    /\ Len(knowledge) > calls
    /\ \E k \in 1 .. Len(knowledge) : knowledge[k].cells # {}

\* the sentence that subset-subtraction derives from the pair (A, B)
Derived(A, B) == Sentence((B.cells \ A.cells) \ moves_made, B.count - A.count)

SubsetPair(A, B) ==
    /\ A.cells # {} /\ B.cells # {}
    /\ ~sentence_eq(A, B)
    /\ A.cells \subseteq B.cells

\* C14: when add_knowledge returns, for every ordered pair (A, B) of
\* non-empty, unequal sentences of knowledge with A.cells a subset of
\* B.cells, knowledge holds the sentence derived from the pair, the pairs
\* with a sentence appended during the call included.
C14_AllPairs ==
    (pc = "idle" /\ op = "add_knowledge") =>
        \A i, j \in 1 .. Len(knowledge) :
            SubsetPair(knowledge[i], knowledge[j]) =>
                InKnowledge(Derived(knowledge[i], knowledge[j]), knowledge)

C14_Witness ==
    /\ pc = "idle" /\ op = "add_knowledge"
    /\ \E i, j \in 1 .. Len(knowledge) :
           /\ SubsetPair(knowledge[i], knowledge[j])
           /\ Derived(knowledge[i], knowledge[j]).cells # {}
           /\ Derived(knowledge[i], knowledge[j]).count # 0
           /\ InKnowledge(Derived(knowledge[i], knowledge[j]), knowledge)

\* C15 (Spec): a sentence that is left with count = 0 (with |cells| = count)
\* and a non-empty cell set when one add_knowledge call has returned has all
\* of those cells in safes (in mines) when the next add_knowledge call has
\* returned.
C15_Deferred ==
    [][ (pc = "idle" /\ op' = "add_knowledge" /\ pc' = "idle") =>
          \A k \in 1 .. Len(knowledge) :
              /\ knowledge[k].count = 0 => knowledge[k].cells \subseteq safes'
              /\ Cardinality(knowledge[k].cells) = knowledge[k].count =>
                     knowledge[k].cells \subseteq mines' ]_vars

\* a call has returned leaving a sentence to be resolved, and another call
\* is to come
C15_Witness ==
    /\ pc = "idle" /\ op = "add_knowledge" /\ calls < MaxCalls
    /\ \E k \in 1 .. Len(knowledge) : Resolvable(knowledge[k])
    /\ \E c \in Cells : ~is_mine(board, c)

\* C16: knowledge is duplicate-free: between calls no two entries at
\* different positions of knowledge are equal by value.
C16_NoDuplicates ==
    pc = "idle" =>
        \A i, j \in 1 .. Len(knowledge) :
            i # j => ~sentence_eq(knowledge[i], knowledge[j])

\* C16 as amended (SpecAny): a sentence is appended only if no equal
\* sentence is in knowledge at the moment of the append.  In a step of
\* add_knowledge the new sentence, when one is appended, equals no sentence
\* of the list as the marking of the cell left it, and every sentence that
\* the inference loops append equals no entry before it in the list.
C16_AppendDedup ==
    [][ op' = "add_knowledge" =>
          LET cell == arg'.cell
              marked == mark_safe([AI EXCEPT !.moves_made = @ \cup {cell}], cell)
              added == add_sentence(AI, cell, arg'.count)
              passed == propagate(added, 1)
          IN /\ Len(added.knowledge) > Len(knowledge) =>
                    ~InKnowledge(added.knowledge[Len(added.knowledge)],
                                 marked.knowledge)
             /\ \A k \in (Len(passed.knowledge) + 1) .. Len(knowledge') :
                    \A j \in 1 .. (k - 1) :
                        ~sentence_eq(knowledge'[j], knowledge'[k]) ]_vars

\* entries that have become equal, next to sentences appended by the loops
C16_Witness ==
    /\ pc = "idle" /\ op = "add_knowledge"
    /\ Len(knowledge) > calls
    /\ \E i, j \in 1 .. Len(knowledge) :
           i # j /\ sentence_eq(knowledge[i], knowledge[j])

\* C17 (Spec): with every observation true of the board, every sentence of
\* knowledge has 0 <= count <= |cells|, the sentences derived by
\* subset-subtraction and those narrowed in place included.
C17_CountInRange ==
    \A k \in 1 .. Len(knowledge) :
        /\ 0 <= knowledge[k].count
        /\ knowledge[k].count <= Cardinality(knowledge[k].cells)

C17_Witness ==
    /\ pc = "idle" /\ op = "add_knowledge"
    /\ Len(knowledge) > calls
    /\ \E k \in 1 .. Len(knowledge) :
           /\ 0 < knowledge[k].count
           /\ knowledge[k].count < Cardinality(knowledge[k].cells)
    /\ C17_CountInRange

\* C18 (SpecAny): add_knowledge accepts every in-bounds cell with every
\* integer count, counts that contradict each other included, and the call
\* returns: no add_knowledge call is left running in its inference loop.
C18_Total == op = "add_knowledge" => pc = "idle"

====
